---- MODULE Spec2Model ----
(***************************************************************************)
(* Course-generation backend: the edge functions update-progress,          *)
(* edit-course-outline, generate-final-course, generate-course-outline and *)
(* generate-course, over the shared tables user_progress, module_progress, *)
(* courses, course_modules, course_generation_sessions and                 *)
(* course_conversations.  Every handler is a sequence of steps separated   *)
(* by its awaits; concurrent invocations interleave at those awaits.       *)
(***************************************************************************)
EXTENDS Integers, Sequences, FiniteSets, TLC

\* ---------------------------------------------------------------- bounds
MaxTime == 1
MaxCourses == 1
MaxUpdates == 3
MaxSessions == 1
MaxEdits == 2
MaxFinals == 2
MaxRecords == 3
MaxDay == 2

\* ------------------------------------------------------------ value space
Users == {"u1", "u2"}
NoUser == "anon"
NoCourse == 0
NoSession == 0
NoModule == ""
CourseIds == 1..MaxCourses
Slots == {1, 2}

\* An optional JavaScript value: <<>> is undefined, <<v>> is the value v.
None == <<>>
Some(v) == <<v>>

\* JavaScript `a || b` on numbers: undefined and 0 are falsy.
NumOr(o, d) == IF o = None THEN d ELSE IF o[1] = 0 THEN d ELSE o[1]
\* JavaScript `a || b` on strings: undefined and "" are falsy.
StrOr(o, d) == IF o = None THEN d ELSE IF o[1] = "" THEN d ELSE o[1]
\* JavaScript `a || b` on arrays: only undefined is falsy, [] is truthy.
ArrOr(o, d) == IF o = None THEN d ELSE o[1]

MathMax(a, b) == IF a >= b THEN a ELSE b

\* PostgREST .single(): the one row, or no data when the result is not
\* exactly one row.
Single(table, idx) ==
    IF Cardinality(idx) = 1 THEN Some(table[CHOOSE i \in idx : TRUE]) ELSE None

VARIABLES
    now,              \* wall clock read by new Date()
    user_progress,    \* table user_progress
    module_progress,  \* table module_progress
    courses,          \* table courses; a course's id is its index
    course_modules,   \* table course_modules
    sessions,         \* table course_generation_sessions; id is the index
    conversations,    \* table course_conversations, in created_at order
    up,               \* in-flight and answered update-progress invocations
    nUpdates,         \* update-progress requests received
    credited,         \* per (user, course), the time_spent deltas of the
                      \* update-progress calls whose progress write succeeded
    eo,               \* in-flight and answered edit-course-outline invocations
    nEdits,           \* edit-course-outline requests received
    okEdits,          \* per session, edit-course-outline calls answered 200
    fc,               \* in-flight and answered generate-final-course invocations
    go,               \* the last generate-course-outline invocation
    gc,               \* the last generate-course invocation
    ga,               \* the last get-user-analytics invocation
    ui,               \* the course generator page and its outline review
    nCreates          \* course-creating requests received

dbVars == <<user_progress, module_progress, courses, course_modules,
            sessions, conversations>>
upVars == <<up, nUpdates, credited>>
eoVars == <<eo, nEdits, okEdits>>
vars == <<now, dbVars, upVars, eoVars, fc, go, gc, ga, ui, nCreates>>

\* -------------------------------------------------------- update-progress
IdleUp == [pc |-> "idle", user |-> NoUser, course_id |-> NoCourse,
           module_id |-> NoModule, progress_percentage |-> None,
           completed_modules |-> None, time_spent |-> None, notes |-> None,
           existingProgress |-> None, status |-> 0, progress |-> None,
           repeats |-> None]

\* Rows of user_progress selected by .eq('user_id', u).eq('course_id', c).
ProgressMatch(table, u, c) ==
    {i \in 1..Len(table) : table[i].user_id = u /\ table[i].course_id = c}

\* The store's uniqueness rule on user_progress (user_id, course_id); rows
\* whose user_id is null never collide.
ProgressKeyFree(table, u, c) ==
    u = NoUser \/ ProgressMatch(table, u, c) = {}

\* UpdatedProgressRow with time_spent overwritten by the delta.
UpdatedProgressRowOverwriting(row, c) ==
    [row EXCEPT
       !.progress_percentage =
           MathMax(c.existingProgress[1].progress_percentage,
                   c.progress_percentage[1]),
       !.completed_modules =
           ArrOr(c.completed_modules, c.existingProgress[1].completed_modules),
       !.time_spent = NumOr(c.time_spent, 0),
       !.last_accessed = now,
       !.notes = StrOr(c.notes, c.existingProgress[1].notes)]

\* The values written by the update branch.
UpdatedProgressRow(row, c) ==
    [row EXCEPT
       !.progress_percentage =
           MathMax(c.existingProgress[1].progress_percentage,
                   c.progress_percentage[1]),
       !.completed_modules =
           ArrOr(c.completed_modules, c.existingProgress[1].completed_modules),
       !.time_spent =
           NumOr(Some(c.existingProgress[1].time_spent), 0)
             + NumOr(c.time_spent, 0),
       !.last_accessed = now,
       !.notes = StrOr(c.notes, c.existingProgress[1].notes)]

\* The row written by the insert branch.
InsertedProgressRow(c) ==
    [user_id |-> c.user, clerk_user_id |-> NoUser, course_id |-> c.course_id,
     progress_percentage |-> c.progress_percentage[1],
     completed_modules |-> ArrOr(c.completed_modules, {}),
     time_spent |-> NumOr(c.time_spent, 0),
     last_accessed |-> now,
     notes |-> StrOr(c.notes, "")]

\* Where the handler goes once user_progress is written.
AfterProgressWrite(c) ==
    IF c.module_id # NoModule THEN "module"
    ELSE IF c.progress_percentage[1] >= 100 THEN "course"
    ELSE "done"

AfterModuleWrite(c) ==
    IF c.progress_percentage[1] >= 100 THEN "course" ELSE "done"

Answer(c, st) == [c EXCEPT !.pc = "done", !.status = st]

Goto(c, pc) == IF pc = "done" THEN Answer(c, 200) ELSE [c EXCEPT !.pc = pc]

\* Request arrival: authentication, field validation and the select of the
\* existing progress row (whose error is ignored).  repeats remembers the
\* progress returned by the previous invocation when this request is the
\* same request again.
UPRequest(s, u, cid, mid, pct, cm, ts, nt, dbOk) ==
    /\ up[s].pc \in {"idle", "done"}
    /\ nUpdates < MaxUpdates
    /\ nUpdates' = nUpdates + 1
    /\ LET c == [IdleUp EXCEPT !.user = u, !.course_id = cid,
                               !.module_id = mid,
                               !.progress_percentage = pct,
                               !.completed_modules = cm,
                               !.time_spent = ts, !.notes = nt]
           same == /\ up[s].status = 200
                   /\ up[s].user = u /\ up[s].course_id = cid
                   /\ up[s].module_id = mid
                   /\ up[s].progress_percentage = pct
                   /\ up[s].completed_modules = cm
                   /\ up[s].time_spent = ts /\ up[s].notes = nt
       IN  up' = [up EXCEPT ![s] =
                 IF u = NoUser THEN Answer(c, 401)
                 ELSE IF cid = NoCourse \/ pct = None THEN Answer(c, 400)
                 ELSE [c EXCEPT !.pc = "write",
                         !.repeats = IF same THEN up[s].progress ELSE None,
                         !.existingProgress =
                            IF dbOk
                            THEN Single(user_progress,
                                        ProgressMatch(user_progress, u, cid))
                            ELSE None]]
    /\ UNCHANGED <<now, dbVars, credited, eoVars, fc, go, gc, ga, ui, nCreates>>

\* The update or insert of the user_progress row; an error is thrown.
UPWrite(s, dbOk) ==
    /\ up[s].pc = "write"
    /\ LET c == up[s]
           idx == ProgressMatch(user_progress, c.user, c.course_id)
           key == <<c.user, c.course_id>>
           credit == [credited EXCEPT ![key] = @ + NumOr(c.time_spent, 0)]
       IN  IF c.existingProgress # None
           THEN IF dbOk
                THEN /\ user_progress' =
                          [i \in 1..Len(user_progress) |->
                             IF i \in idx
                             THEN UpdatedProgressRow(user_progress[i], c)
                             ELSE user_progress[i]]
                     /\ up' = [up EXCEPT ![s] =
                          IF Cardinality(idx) = 1
                          THEN [Goto(c, AfterProgressWrite(c)) EXCEPT
                                  !.progress =
                                     Single(user_progress', idx)]
                          ELSE Answer(c, 500)]
                     /\ credited' = credit
                ELSE /\ up' = [up EXCEPT ![s] = Answer(c, 500)]
                     /\ UNCHANGED <<user_progress, credited>>
           ELSE IF dbOk /\ ProgressKeyFree(user_progress, c.user, c.course_id)
                THEN /\ user_progress' =
                          Append(user_progress, InsertedProgressRow(c))
                     /\ up' = [up EXCEPT ![s] =
                          [Goto(c, AfterProgressWrite(c)) EXCEPT
                             !.progress = Some(InsertedProgressRow(c))]]
                     /\ credited' = credit
                ELSE /\ up' = [up EXCEPT ![s] = Answer(c, 500)]
                     /\ UNCHANGED <<user_progress, credited>>
    /\ UNCHANGED <<now, module_progress, courses, course_modules, sessions,
                   conversations, nUpdates, eoVars, fc, go, gc, ga, ui, nCreates>>

\* The module_progress upsert; its result is not looked at.
UPModule(s, dbOk) ==
    /\ up[s].pc = "module"
    /\ LET c == up[s]
           key == <<c.user, c.course_id, c.module_id>>
           row == [completed |-> c.progress_percentage[1] >= 100,
                   time_spent |-> NumOr(c.time_spent, 0),
                   last_accessed |-> now]
       IN  /\ module_progress' =
                IF dbOk
                THEN [k \in DOMAIN module_progress \cup {key} |->
                        IF k = key THEN row ELSE module_progress[k]]
                ELSE module_progress
           /\ up' = [up EXCEPT ![s] = Goto(c, AfterModuleWrite(c))]
    /\ UNCHANGED <<now, user_progress, courses, course_modules, sessions,
                   conversations, nUpdates, credited, eoVars, fc, go, gc, ga, ui,
                   nCreates>>

\* The course completion update; its result is not looked at.
UPCourse(s, dbOk) ==
    /\ up[s].pc = "course"
    /\ LET c == up[s]
       IN  /\ courses' =
                IF dbOk
                THEN [i \in 1..Len(courses) |->
                        IF i = c.course_id /\ courses[i].user_id = c.user
                        THEN [courses[i] EXCEPT !.completed_at = Some(now),
                                                !.status = "completed"]
                        ELSE courses[i]]
                ELSE courses
           /\ up' = [up EXCEPT ![s] = Answer(c, 200)]
    /\ UNCHANGED <<now, user_progress, module_progress, course_modules,
                   sessions, conversations, nUpdates, credited, eoVars, fc, go,
                   gc, ga, ui, nCreates>>

\* --------------------------------------------------- outlines and replies
OutlineKeys == {"duration", "sources", "notes", "review_message"}

Module(t) == [title |-> t, description |-> "about " \o t]

\* A JSON object as returned by the provider: title, description and
\* modules when present, and which of the remaining outline keys it carries.
OutlineA == [title |-> Some("A"), description |-> Some("course A"),
             modules |-> Some(<<Module("a")>>), rest |-> OutlineKeys]
OutlineB == [title |-> Some("B"), description |-> Some("course B"),
             modules |-> Some(<<Module("a"), Module("b")>>),
             rest |-> OutlineKeys]
OutlineBare == [title |-> None, description |-> None, modules |-> None,
                rest |-> {}]

\* The provider's HTTP reply: ok is response.ok; form is how the message
\* content spells the object: "json" is exactly a JSON document, "wrapped"
\* is prose around one JSON object, "broken" has braces whose first-to-last
\* span is not JSON, "prose" has no braces, "empty" has no choices.
Replies ==
    [ok : {TRUE}, form : {"json", "wrapped", "broken", "prose", "empty"},
     value : {OutlineB}]
      \cup [ok : {TRUE}, form : {"json"}, value : {OutlineBare}]
      \cup [ok : {FALSE}, form : {"empty"}, value : {OutlineBare}]

\* ParseOutline taking a brace-delimited span that is not JSON as parsed.
ParseOutlineLenient(reply) ==
    CASE reply.form = "json" -> Some(reply.value)
      [] reply.form = "wrapped" -> Some(reply.value)
      [] reply.form = "broken" -> Some(reply.value)
      [] OTHER -> None

\* JSON.parse of the content, then the /\{[\s\S]*\}/ fallback; None when
\* the handler throws.
ParseOutline(reply) ==
    CASE reply.form = "json" -> Some(reply.value)
      [] reply.form = "wrapped" -> Some(reply.value)
      [] OTHER -> None

\* ------------------------------------------------ generate-course-outline
IdleGo == [status |-> 0, session_id |-> NoSession, outline |-> None,
           clerk_user_id |-> NoUser, topic |-> "", context |-> "",
           calledProvider |-> FALSE]

\* SessionRow with the status of a finished session.
SessionRowCompleted(u, topic, context, kl, lg, pd, outline) ==
    [clerk_user_id |-> u, topic |-> topic, context |-> context,
     knowledge_level |-> kl, learning_goals |-> lg,
     preferred_duration |-> pd, current_outline |-> outline,
     status |-> "completed", updated_at |-> now]

\* The row inserted into course_generation_sessions.
SessionRow(u, topic, context, kl, lg, pd, outline) ==
    [clerk_user_id |-> u, topic |-> topic, context |-> context,
     knowledge_level |-> kl, learning_goals |-> lg,
     preferred_duration |-> pd, current_outline |-> outline,
     status |-> "outline_review", updated_at |-> now]

\* The whole handler: validation, provider call, parse, session insert.
\* At most MaxSessions sessions are created.
GenerateOutline(u, topic, context, kl, lg, pd, reply, dbOk) ==
    /\ LET missing == topic = "" \/ context = "" \/ kl = "" \/ lg = ""
                        \/ pd = "" \/ u = NoUser
           parsed == ParseOutline(reply)
           r == [IdleGo EXCEPT !.clerk_user_id = u, !.topic = topic,
                               !.context = context]
       IN  /\ Len(sessions) < MaxSessions
              \/ missing \/ ~reply.ok \/ parsed = None \/ ~dbOk
           /\ IF missing
              THEN /\ go' = [r EXCEPT !.status = 400]
                   /\ UNCHANGED sessions
              ELSE IF ~reply.ok \/ parsed = None \/ ~dbOk
              THEN /\ go' = [r EXCEPT !.status = 500,
                                      !.calledProvider = TRUE]
                   /\ UNCHANGED sessions
              ELSE /\ sessions' = Append(sessions,
                         SessionRow(u, topic, context, kl, lg, pd, parsed[1]))
                   /\ go' = [r EXCEPT !.status = 200, !.calledProvider = TRUE,
                                      !.session_id = Len(sessions) + 1,
                                      !.outline = parsed]
    /\ UNCHANGED <<now, user_progress, module_progress, courses,
                   course_modules, conversations, upVars, eoVars, fc, gc, ga, ui,
                   nCreates>>

\* -------------------------------------------------------- generate-course
IdleGc == [status |-> 0, course_id |-> NoCourse, user |-> NoUser]

CourseRow(uid, cuid, title, description, nmod, sid, outline) ==
    [user_id |-> uid, clerk_user_id |-> cuid, title |-> title,
     description |-> description, total_modules |-> nmod,
     status |-> "active", completed_at |-> None,
     session_id |-> sid, approved_outline |-> outline]

ModuleRows(cid, mods, content) ==
    [i \in 1..Len(mods) |->
       [course_id |-> cid, title |-> mods[i].title,
        description |-> mods[i].description, content |-> content,
        order_index |-> i]]

\* The whole handler: authentication, validation, provider call, parse,
\* course insert, module insert; both insert errors are thrown.
GenerateCourse(u, topic, reply, dbOk1, dbOk2) ==
    /\ nCreates < MaxCourses
    /\ nCreates' = nCreates + 1
    /\ LET r == [IdleGc EXCEPT !.user = u]
           parsed == IF reply.form = "json" THEN Some(reply.value) ELSE None
           usable == /\ reply.ok /\ parsed # None
                     /\ parsed[1].modules # None
           cid == Len(courses) + 1
       IN  IF u = NoUser
           THEN gc' = [r EXCEPT !.status = 401] /\ UNCHANGED <<courses, course_modules>>
           ELSE IF topic = ""
           THEN gc' = [r EXCEPT !.status = 400] /\ UNCHANGED <<courses, course_modules>>
           ELSE IF ~usable \/ ~dbOk1
           THEN gc' = [r EXCEPT !.status = 500] /\ UNCHANGED <<courses, course_modules>>
           ELSE /\ courses' = Append(courses,
                      CourseRow(u, NoUser, parsed[1].title,
                                parsed[1].description,
                                Len(parsed[1].modules[1]), NoSession, None))
                /\ IF dbOk2
                   THEN /\ course_modules' = course_modules \o
                              ModuleRows(cid, parsed[1].modules[1], "module")
                        /\ gc' = [r EXCEPT !.status = 200, !.course_id = cid]
                   ELSE /\ gc' = [r EXCEPT !.status = 500]
                        /\ UNCHANGED course_modules
    /\ UNCHANGED <<now, user_progress, module_progress, sessions,
                   conversations, upVars, eoVars, fc, go, ga, ui>>

\* -------------------------------------------------- generate-final-course
IdleFc == [pc |-> "idle", session_id |-> NoSession, approved_outline |-> None,
           clerk_user_id |-> NoUser, session |-> None, courseContent |-> "",
           course_id |-> NoCourse, status |-> 0,
           modulesSaved |-> FALSE, progressSaved |-> FALSE,
           sessionSaved |-> FALSE]

\* SessionMatch without the clerk_user_id filter.
SessionMatchById(table, sid, u) ==
    {i \in 1..Len(table) : i = sid}

\* Rows selected by .eq('id', sid).eq('clerk_user_id', u).
SessionMatch(table, sid, u) ==
    {i \in 1..Len(table) : i = sid /\ table[i].clerk_user_id = u}

\* Request arrival: validation and the session lookup.
FCRequest(s, sid, ao, u, dbOk) ==
    /\ fc[s].pc \in {"idle", "done"}
    /\ nCreates < MaxFinals
    /\ nCreates' = nCreates + 1
    /\ LET c == [IdleFc EXCEPT !.session_id = sid, !.approved_outline = ao,
                               !.clerk_user_id = u]
           found == IF dbOk
                    THEN Single(sessions, SessionMatch(sessions, sid, u))
                    ELSE None
       IN  fc' = [fc EXCEPT ![s] =
                 IF sid = NoSession \/ ao = None \/ u = NoUser
                 THEN Answer(c, 400)
                 ELSE IF found = None THEN Answer(c, 404)
                 ELSE [c EXCEPT !.pc = "provider", !.session = found]]
    /\ UNCHANGED <<now, dbVars, upVars, eoVars, go, gc, ga, ui>>

\* The provider call; the content is taken as text, unparsed.
FCProvider(s, reply) ==
    /\ fc[s].pc = "provider"
    /\ fc' = [fc EXCEPT ![s] =
              IF ~reply.ok \/ reply.form = "empty"
              THEN Answer(fc[s], 500)
              ELSE [fc[s] EXCEPT !.pc = "course",
                                 !.courseContent = reply.form]]
    /\ UNCHANGED <<now, dbVars, upVars, eoVars, go, gc, ga, ui, nCreates>>

\* The course insert; its error is thrown.
FCInsertCourse(s, dbOk) ==
    /\ fc[s].pc = "course"
    /\ LET c == fc[s]
           ao == c.approved_outline[1]
           ses == c.session[1]
           mods == IF ao.modules = None THEN <<>> ELSE ao.modules[1]
       IN  IF dbOk
           THEN /\ courses' = Append(courses,
                      CourseRow(NoUser, c.clerk_user_id,
                                Some(StrOr(ao.title, ses.topic)),
                                Some(StrOr(ao.description, "on " \o ses.topic)),
                                Len(mods), c.session_id, c.approved_outline))
                /\ fc' = [fc EXCEPT ![s] =
                          [c EXCEPT !.course_id = Len(courses) + 1,
                                    !.pc = IF ao.modules # None
                                           THEN "modules" ELSE "progress"]]
           ELSE /\ fc' = [fc EXCEPT ![s] = Answer(c, 500)]
                /\ UNCHANGED courses
    /\ UNCHANGED <<now, user_progress, module_progress, course_modules,
                   sessions, conversations, upVars, eoVars, go, gc, ga, ui, nCreates>>

\* The bulk module insert; its error is only logged.
FCInsertModules(s, dbOk) ==
    /\ fc[s].pc = "modules"
    /\ LET c == fc[s]
       IN  /\ course_modules' =
                IF dbOk
                THEN course_modules \o
                       ModuleRows(c.course_id, c.approved_outline[1].modules[1],
                                  c.courseContent)
                ELSE course_modules
           /\ fc' = [fc EXCEPT ![s] = [c EXCEPT !.pc = "progress",
                                               !.modulesSaved = dbOk]]
    /\ UNCHANGED <<now, user_progress, module_progress, courses, sessions,
                   conversations, upVars, eoVars, go, gc, ga, ui, nCreates>>

\* The initial progress insert, keyed by clerk_user_id; its error is only
\* logged.
FCInsertProgress(s, dbOk) ==
    /\ fc[s].pc = "progress"
    /\ LET c == fc[s]
           row == [user_id |-> NoUser, clerk_user_id |-> c.clerk_user_id,
                   course_id |-> c.course_id, progress_percentage |-> 0,
                   completed_modules |-> {}, time_spent |-> 0,
                   last_accessed |-> now, notes |-> ""]
           done == dbOk /\ ProgressKeyFree(user_progress, NoUser, c.course_id)
       IN  /\ user_progress' =
                IF done THEN Append(user_progress, row) ELSE user_progress
           /\ fc' = [fc EXCEPT ![s] = [c EXCEPT !.pc = "session",
                                               !.progressSaved = done]]
    /\ UNCHANGED <<now, module_progress, courses, course_modules, sessions,
                   conversations, upVars, eoVars, go, gc, ga, ui, nCreates>>

\* The session status update; its result is not looked at.
FCUpdateSession(s, dbOk) ==
    /\ fc[s].pc = "session"
    /\ LET c == fc[s]
       IN  /\ sessions' =
                IF dbOk
                THEN [i \in 1..Len(sessions) |->
                        IF i = c.session_id
                        THEN [sessions[i] EXCEPT !.status = "completed",
                                                 !.updated_at = now]
                        ELSE sessions[i]]
                ELSE sessions
           /\ fc' = [fc EXCEPT ![s] =
                     Answer([c EXCEPT !.sessionSaved = dbOk], 200)]
    /\ UNCHANGED <<now, user_progress, module_progress, courses,
                   course_modules, conversations, upVars, eoVars, go, gc, ga, ui,
                   nCreates>>

\* ---------------------------------------------------- edit-course-outline
IdleEo == [pc |-> "idle", session_id |-> NoSession, user_message |-> "",
           current_outline |-> None, clerk_user_id |-> NoUser,
           session |-> None, conversations |-> <<>>, editPrompt |-> None,
           providerCalls |-> 0, aiResponse |-> None,
           updatedOutline |-> None, status |-> 0,
           updated_outline |-> None, conversationSaved |-> FALSE,
           sessionSaved |-> FALSE]

\* Rows selected by .eq('session_id', sid), in created_at order.
ConversationsOf(table, sid) ==
    SelectSeq(table, LAMBDA r : r.session_id = sid)

\* The two rows the handler inserts.
ConversationRows(sid, msg, outline) ==
    << [session_id |-> sid, message_type |-> "user", content |-> Some(msg),
        outline |-> None],
       [session_id |-> sid, message_type |-> "assistant", content |-> None,
        outline |-> Some(outline)] >>

\* The edit prompt: session parameters, the outline serialised into it, the
\* transcript and the new request.
EditPrompt(c) ==
    [topic |-> c.session[1].topic, context |-> c.session[1].context,
     outline |-> c.current_outline[1],
     history |-> c.conversations,
     request |-> c.user_message]

\* Request arrival: validation and the session lookup.
EORequest(s, sid, msg, co, u, dbOk) ==
    /\ eo[s].pc \in {"idle", "done"}
    /\ nEdits < MaxEdits
    /\ nEdits' = nEdits + 1
    /\ LET c == [IdleEo EXCEPT !.session_id = sid, !.user_message = msg,
                               !.current_outline = co, !.clerk_user_id = u]
           found == IF dbOk
                    THEN Single(sessions, SessionMatch(sessions, sid, u))
                    ELSE None
       IN  eo' = [eo EXCEPT ![s] =
                 IF sid = NoSession \/ msg = "" \/ co = None \/ u = NoUser
                 THEN Answer(c, 400)
                 ELSE IF found = None THEN Answer(c, 404)
                 ELSE [c EXCEPT !.pc = "history", !.session = found]]
    /\ UNCHANGED <<now, dbVars, upVars, okEdits, fc, go, gc, ga, ui, nCreates>>

\* The conversation history select (its error is ignored) and the prompt.
EOHistory(s, dbOk) ==
    /\ eo[s].pc = "history"
    /\ LET c == [eo[s] EXCEPT !.conversations =
                    IF dbOk
                    THEN ConversationsOf(conversations, eo[s].session_id)
                    ELSE <<>>]
       IN  eo' = [eo EXCEPT ![s] =
                   [c EXCEPT !.pc = "provider",
                             !.editPrompt = Some(EditPrompt(c))]]
    /\ UNCHANGED <<now, dbVars, upVars, nEdits, okEdits, fc, go, gc, ga, ui, nCreates>>

\* The provider call and the parse of its reply.
EOProvider(s, reply) ==
    /\ eo[s].pc = "provider"
    /\ LET c == [eo[s] EXCEPT !.providerCalls = @ + 1,
                               !.aiResponse = Some(reply)]
           parsed == ParseOutline(reply)
       IN  eo' = [eo EXCEPT ![s] =
                 IF ~reply.ok \/ reply.form = "empty" \/ parsed = None
                 THEN Answer(c, 500)
                 ELSE [c EXCEPT !.pc = "save_conversation",
                                !.updatedOutline = parsed]]
    /\ UNCHANGED <<now, dbVars, upVars, nEdits, okEdits, fc, go, gc, ga, ui, nCreates>>

\* The insert of the two conversation rows; its result is not looked at.
EOSaveConversation(s, dbOk) ==
    /\ eo[s].pc = "save_conversation"
    /\ LET c == eo[s]
       IN  /\ conversations' =
                IF dbOk
                THEN conversations \o
                       ConversationRows(c.session_id, c.user_message,
                                        c.updatedOutline[1])
                ELSE conversations
           /\ eo' = [eo EXCEPT ![s] = [c EXCEPT !.pc = "save_session",
                                               !.conversationSaved = dbOk]]
    /\ UNCHANGED <<now, user_progress, module_progress, courses,
                   course_modules, sessions, upVars, nEdits, okEdits, fc, go,
                   gc, ga, ui, nCreates>>

\* The session update (by id only; its result is not looked at) and the
\* success response.
EOSaveSession(s, dbOk) ==
    /\ eo[s].pc = "save_session"
    /\ LET c == eo[s]
       IN  /\ sessions' =
                IF dbOk
                THEN [i \in 1..Len(sessions) |->
                        IF i = c.session_id
                        THEN [sessions[i] EXCEPT
                                !.current_outline = c.updatedOutline[1],
                                !.updated_at = now]
                        ELSE sessions[i]]
                ELSE sessions
           /\ eo' = [eo EXCEPT ![s] =
                     Answer([c EXCEPT !.sessionSaved = dbOk,
                                      !.updated_outline = c.updatedOutline],
                            200)]
           /\ okEdits' = [okEdits EXCEPT ![c.session_id] = @ + 1]
    /\ UNCHANGED <<now, user_progress, module_progress, courses,
                   course_modules, conversations, upVars, nEdits, fc, go, gc, ga, ui,
                   nCreates>>

\* ----------------------------------------------------- get-user-analytics
IdleGa == [status |-> 0, user |-> NoUser, queried |-> FALSE,
           learning_streak |-> 0]

\* A timestamp is a count of half days; a calendar day holds TicksPerDay
\* of them.
TicksPerDay == 2

\* date.setHours(0, 0, 0, 0): the timestamp of the day's midnight.
Midnight(t) == t - (t % TicksPerDay)

\* Math.floor((today - accessDate) / one day), both at midnight.
DaysDiff(today, t) == (Midnight(today) - Midnight(t)) \div TicksPerDay

\* A sequence without its element at position k.
RemoveAt(seq, k) ==
    [i \in 1..(Len(seq) - 1) |-> IF i < k THEN seq[i] ELSE seq[i + 1]]

\* .order('last_accessed', { ascending: false }) on a column of stamps.
RECURSIVE OrderDescending(_)
OrderDescending(seq) ==
    IF seq = <<>> THEN <<>>
    ELSE LET k == CHOOSE i \in 1..Len(seq) :
                      \A j \in 1..Len(seq) : seq[i] >= seq[j]
         IN  <<seq[k]>> \o OrderDescending(RemoveAt(seq, k))

\* The last_accessed column of the user's progress rows, latest first.
LastAccessed(table, u) ==
    LET rows == SelectSeq(table, LAMBDA r : r.user_id = u)
    IN  OrderDescending([i \in 1..Len(rows) |-> rows[i].last_accessed])

\* The loop of calculateLearningStreak from position k on with the given
\* running streak.
RECURSIVE StreakLoop(_, _, _, _)
StreakLoop(stamps, k, today, streak) ==
    IF k > Len(stamps) THEN streak
    ELSE IF DaysDiff(today, stamps[k]) = streak
    THEN StreakLoop(stamps, k + 1, today, streak + 1)
    ELSE streak

\* calculateLearningStreak; progressData is null when the query failed.
calculateLearningStreak(progressData, today) ==
    IF progressData = None THEN 0
    ELSE IF progressData[1] = <<>> THEN 0
    ELSE StreakLoop(progressData[1], 1, today, 0)

\* The handler as far as learning_streak goes: authentication, then the
\* streak from the user's progress rows.
GetAnalytics(u, dbOk) ==
    /\ ga' = IF u = NoUser
             THEN [IdleGa EXCEPT !.status = 401]
             ELSE [status |-> 200, user |-> u, queried |-> dbOk,
                   learning_streak |->
                      calculateLearningStreak(
                         IF dbOk THEN Some(LastAccessed(user_progress, u))
                         ELSE None,
                         now)]
    /\ UNCHANGED <<now, dbVars, upVars, eoVars, fc, go, gc, ui, nCreates>>

\* ------------------------------------------------ course generator page
\* The signed-in user of the page.
clerkUser == "u1"

\* The page before an outline exists; handled counts the edit responses
\* the review has processed.
IdleUi == [step |-> "form", sessionId |-> NoSession, currentOutline |-> None,
           handled |-> 0]

\* obj[name] of a JavaScript object: undefined when the key is absent.
Field(obj, name) == IF name \in DOMAIN obj THEN Some(obj[name]) ELSE None

\* The body of the edit-course-outline success response.
EditResponse(c) == [success |-> TRUE, updated_outline |-> c.updated_outline[1]]

\* handleGenerateOutline's request; canProceed lets only non-blank topics
\* and contexts through.
UIGenerate(reply, dbOk) ==
    /\ ui.step = "form"
    /\ GenerateOutline(clerkUser, "Photosynthesis", "exam", "beginner",
                       "pass", "3-5", reply, dbOk)

\* handleGenerateOutline after a success: the review opens with the
\* returned outline and session id.
UIOpenReview ==
    /\ ui.step = "form"
    /\ go.status = 200
    /\ ui' = [ui EXCEPT !.step = "review", !.sessionId = go.session_id,
                        !.currentOutline = go.outline, !.handled = nEdits]
    /\ UNCHANGED <<now, dbVars, upVars, eoVars, fc, go, gc, ga, nCreates>>

\* handleSendMessage up to the request: session_id, user_message and
\* current_outline, and no clerk_user_id.
UISendMessage(msg, dbOk) ==
    /\ ui.step = "review"
    /\ ui.handled = nEdits
    /\ msg \notin {"", " "}
    /\ EORequest(1, ui.sessionId, msg, ui.currentOutline, NoUser, dbOk)

\* api.editCourseOutline called from the review with a body of its declared
\* parameter type, clerk_user_id included.
UISendTyped(msg, dbOk) ==
    /\ ui.step = "review"
    /\ ui.handled = nEdits
    /\ msg \notin {"", " "}
    /\ EORequest(1, ui.sessionId, msg, ui.currentOutline, clerkUser, dbOk)

\* handleSendMessage after the response: a success sets currentOutline to
\* result.outline; an error status is thrown by the api wrapper and leaves
\* the state as it was.
UIReceiveEdit ==
    /\ ui.step = "review"
    /\ ui.handled < nEdits
    /\ eo[1].pc = "done"
    /\ ui' = [ui EXCEPT
                !.handled = nEdits,
                !.currentOutline =
                    IF eo[1].status = 200
                    THEN Field(EditResponse(eo[1]), "outline")
                    ELSE @]
    /\ UNCHANGED <<now, dbVars, upVars, eoVars, fc, go, gc, ga, nCreates>>

\* handleCreateCourse's request: session_id and approved_outline, and no
\* clerk_user_id.
UICreateCourse(dbOk) ==
    /\ ui.step = "review"
    /\ FCRequest(1, ui.sessionId, ui.currentOutline, NoUser, dbOk)

\* ------------------------------------------------------------------ clock
Tick ==
    /\ now < MaxTime
    /\ now' = now + 1
    /\ UNCHANGED <<dbVars, upVars, eoVars, fc, go, gc, ga, ui, nCreates>>

\* ---------------------------------------------------------- specifications
Init ==
    /\ now = 0
    /\ user_progress = <<>>
    /\ module_progress = <<>>
    /\ courses = <<>>
    /\ course_modules = <<>>
    /\ sessions = <<>>
    /\ conversations = <<>>
    /\ up = [s \in Slots |-> IdleUp]
    /\ nUpdates = 0
    /\ credited = [k \in Users \X CourseIds |-> 0]
    /\ eo = [s \in Slots |-> IdleEo]
    /\ nEdits = 0
    /\ okEdits = [i \in 1..MaxSessions |-> 0]
    /\ fc = [s \in Slots |-> IdleFc]
    /\ go = IdleGo
    /\ gc = IdleGc
    /\ ga = IdleGa
    /\ ui = IdleUi
    /\ nCreates = 0

\* No invocation is between its request and its response.
Quiet ==
    /\ \A s \in Slots : up[s].pc \in {"idle", "done"}
    /\ \A s \in Slots : eo[s].pc \in {"idle", "done"}
    /\ \A s \in Slots : fc[s].pc \in {"idle", "done"}

\* The update-progress request bodies built from the given callers,
\* courses, modules, percentages and time deltas.
UpdateBodies(U, C, M, P, T) ==
    [user : U, course_id : C, module_id : M, progress_percentage : P,
     completed_modules : {None}, time_spent : T, notes : {None}]

\* A request without a valid token, without course_id, without
\* progress_percentage.
RejectedBodies ==
    UpdateBodies({NoUser}, {1}, {NoModule}, {Some(40)}, {None})
      \cup UpdateBodies({"u1"}, {NoCourse}, {NoModule}, {Some(40)}, {None})
      \cup UpdateBodies({"u1"}, {1}, {NoModule}, {None}, {None})

UpdateRequest(S, R, D) ==
    \E s \in S, r \in R, dbOk \in D :
        UPRequest(s, r.user, r.course_id, r.module_id, r.progress_percentage,
                  r.completed_modules, r.time_spent, r.notes, dbOk)

UpdateStep ==
    \E s \in Slots, dbOk \in BOOLEAN :
        \/ UPWrite(s, dbOk)
        \/ UPModule(s, dbOk)
        \/ UPCourse(s, dbOk)

OutlineRequest(U, T, R) ==
    \E u \in U, topic \in T, reply \in R, dbOk \in BOOLEAN :
        GenerateOutline(u, topic, "exam", "beginner", "pass", "3-5",
                        reply, dbOk)

\* generate-course-outline requests with the given callers, topics,
\* contexts and provider replies.
OutlineRequestOn(U, T, X, R) ==
    \E u \in U, topic \in T, context \in X, reply \in R, dbOk \in BOOLEAN :
        GenerateOutline(u, topic, context, "beginner", "pass", "3-5",
                        reply, dbOk)

CourseRequest(U, T, R) ==
    \E u \in U, topic \in T, reply \in R, dbOk1 \in BOOLEAN, dbOk2 \in BOOLEAN :
        GenerateCourse(u, topic, reply, dbOk1, dbOk2)

FinalRequest(S, I, U, A) ==
    \E s \in S, sid \in I, u \in U, ao \in A, dbOk \in BOOLEAN :
        FCRequest(s, sid, ao, u, dbOk)

FinalStep(R) ==
    \/ \E s \in Slots, reply \in R : FCProvider(s, reply)
    \/ \E s \in Slots, dbOk \in BOOLEAN :
        \/ FCInsertCourse(s, dbOk)
        \/ FCInsertModules(s, dbOk)
        \/ FCInsertProgress(s, dbOk)
        \/ FCUpdateSession(s, dbOk)

\* The edit-course-outline request bodies built from the given sessions,
\* callers, messages and client outlines.
EditBodies(I, U, M, O) ==
    [session_id : I, clerk_user_id : U, user_message : M, current_outline : O]

\* Requests without session_id, clerk_user_id, user_message, current_outline.
IncompleteEdits ==
    EditBodies({NoSession}, {"u1"}, {"add a module"}, {Some(OutlineA)})
      \cup EditBodies({1}, {NoUser}, {"add a module"}, {Some(OutlineA)})
      \cup EditBodies({1}, {"u1"}, {""}, {Some(OutlineA)})
      \cup EditBodies({1}, {"u1"}, {"add a module"}, {None})

EditRequest(S, R) ==
    \E s \in S, r \in R, dbOk \in BOOLEAN :
        EORequest(s, r.session_id, r.user_message, r.current_outline,
                  r.clerk_user_id, dbOk)

\* The steps of the edit-course-outline invocations in flight, the
\* provider answering with one of the replies R.
EditStepOn(R) ==
    \/ \E s \in Slots, reply \in R : EOProvider(s, reply)
    \/ \E s \in Slots, dbOk \in BOOLEAN :
        \/ EOHistory(s, dbOk)
        \/ EOSaveConversation(s, dbOk)
        \/ EOSaveSession(s, dbOk)

EditStep == EditStepOn(Replies)

GoodReply == [ok |-> TRUE, form |-> "json", value |-> OutlineB]
BadReply == [ok |-> FALSE, form |-> "empty", value |-> OutlineBare]
BrokenReply == [ok |-> TRUE, form |-> "broken", value |-> OutlineB]
BareReply == [ok |-> TRUE, form |-> "json", value |-> OutlineBare]

\* generate-course requests arriving while nothing else is in flight.
SequentialCourseRequest ==
    Quiet /\ CourseRequest({"u1"}, {"Photosynthesis"}, {GoodReply, BadReply})

\* update-progress requests, with percentages in and out of range,
\* arriving while nothing else is in flight.
SequentialUpdateRequest ==
    Quiet /\ UpdateRequest({1},
                UpdateBodies({"u1"}, CourseIds, {NoModule, "m1"},
                             {Some(-1), Some(0), Some(100), Some(101)},
                             {Some(5)})
                  \cup RejectedBodies,
                {TRUE})

\* One invocation at a time: generate-course creates a course, and
\* update-progress is called on it.
NextSequential ==
    \/ Tick
    \/ SequentialCourseRequest
    \/ SequentialUpdateRequest
    \/ UpdateStep

SpecSequential == Init /\ [][NextSequential]_vars

\* update-progress requests on one progress record, arriving while nothing
\* else is in flight.
RepeatUpdateRequest ==
    Quiet /\ UpdateRequest({1},
                UpdateBodies({"u1"}, {1}, {NoModule},
                             {Some(40), Some(100)}, {None, Some(5)})
                  \cup UpdateBodies({"u1"}, {1}, {"m1"}, {Some(100)},
                                    {Some(5)}),
                BOOLEAN)

\* One update-progress invocation at a time, on one progress record.
NextRepeat ==
    \/ Tick
    \/ RepeatUpdateRequest
    \/ UpdateStep

SpecRepeat == Init /\ [][NextRepeat]_vars

\* Concurrent update-progress invocations of one user on one course.
NextUpdate ==
    \/ Tick
    \/ UpdateRequest(Slots,
          UpdateBodies({"u1"}, CourseIds, {NoModule, "m1"},
                       {Some(40), Some(100)}, {Some(5)}),
          {TRUE})
    \/ UpdateStep

SpecUpdate == Init /\ [][NextUpdate]_vars

\* update-progress request bodies of u1 on course 1 that supply or omit
\* completed_modules and notes, and one that completes module m1.
FrameBodies ==
    [user : {"u1"}, course_id : {1}, module_id : {NoModule},
     progress_percentage : {Some(40)},
     completed_modules : {None, Some({}), Some({"m1"})},
     time_spent : {None}, notes : {None, Some(""), Some("n")}]
      \cup UpdateBodies({"u1"}, {1}, {"m1"}, {Some(100)}, {None})

\* Concurrent update-progress invocations on one progress record, with and
\* without completed_modules and notes.
NextFrame ==
    \/ UpdateRequest(Slots, FrameBodies, {TRUE})
    \/ UpdateStep

SpecFrame == Init /\ [][NextFrame]_vars

\* generate-final-course requests, as many as there are courses to create.
SingleFinalRequest ==
    /\ nCreates < MaxCourses
    /\ FinalRequest({1}, 1..MaxSessions, Users, {Some(OutlineA)})

\* Materialization followed by progress tracking: generate-course-outline
\* creates the session, generate-final-course the course and its initial
\* progress row, and update-progress is called on that course.
NextMaterialize ==
    \/ OutlineRequest({"u1"}, {"Photosynthesis"}, {GoodReply, BadReply})
    \/ SingleFinalRequest
    \/ FinalStep({GoodReply, BadReply})
    \/ UpdateRequest({1},
          UpdateBodies(Users, CourseIds, {NoModule, "m1"},
                       {Some(40), Some(100)}, {Some(5)}),
          {TRUE})
    \/ UpdateStep

SpecMaterialize == Init /\ [][NextMaterialize]_vars

\* Outline refinement: sessions are created by generate-course-outline and
\* edit-course-outline invocations run concurrently.
NextEdit ==
    \/ OutlineRequest({"u1"}, {"Photosynthesis"}, {GoodReply, BadReply})
    \/ EditRequest(Slots,
          EditBodies(1..MaxSessions, Users, {"add a module"},
                     {Some(OutlineA)})
            \cup IncompleteEdits)
    \/ EditStepOn({GoodReply, BadReply, BrokenReply, BareReply})

SpecEdit == Init /\ [][NextEdit]_vars

\* Outline refinement by the session's owner under every provider reply.
NextEditReply ==
    \/ OutlineRequest({"u1"}, {"Photosynthesis"}, {GoodReply})
    \/ EditRequest(Slots,
          EditBodies(1..MaxSessions, {"u1"}, {"add a module"},
                     {Some(OutlineA)}))
    \/ EditStep

SpecEditReply == Init /\ [][NextEditReply]_vars

\* The steps of an edit-course-outline invocation that wait on the store.
EditStoreStep(s) ==
    \E dbOk \in BOOLEAN :
        \/ EOHistory(s, dbOk)
        \/ EOSaveConversation(s, dbOk)
        \/ EOSaveSession(s, dbOk)

\* Outline refinement where the store answers every query, with data or
\* with an error; the provider's reply is awaited by a fetch without a
\* deadline and nothing makes it arrive.
SpecEditLive ==
    SpecEdit /\ \A s \in Slots : WF_vars(EditStoreStep(s))

\* Outline generation: requests with and without their required fields,
\* with empty and whitespace-only topics and contexts, under every provider
\* reply and insert outcome.
NextOutline ==
    OutlineRequestOn(Users \cup {NoUser}, {"", " ", "Photosynthesis"},
                     {"", " ", "exam"},
                     {GoodReply, BadReply, BrokenReply, BareReply})

SpecOutline == Init /\ [][NextOutline]_vars

\* The timestamps of days 0..MaxDay.
Stamps == 0..((MaxDay + 1) * TicksPerDay - 1)

\* A progress row of user u on course cid last accessed at t.
AccessedRow(u, cid, t) ==
    [user_id |-> u, clerk_user_id |-> NoUser, course_id |-> cid,
     progress_percentage |-> 0, completed_modules |-> {}, time_spent |-> 0,
     last_accessed |-> t, notes |-> ""]

\* Any table of up to MaxRecords progress rows, one per course, accessed
\* at any time up to now.
InitStreak ==
    /\ now \in Stamps
    /\ \E n \in 0..MaxRecords :
          \E f \in [1..n -> Users \X (0..now)] :
             user_progress = [i \in 1..n |-> AccessedRow(f[i][1], i, f[i][2])]
    /\ module_progress = <<>>
    /\ courses = <<>>
    /\ course_modules = <<>>
    /\ sessions = <<>>
    /\ conversations = <<>>
    /\ up = [s \in Slots |-> IdleUp]
    /\ nUpdates = 0
    /\ credited = [k \in Users \X CourseIds |-> 0]
    /\ eo = [s \in Slots |-> IdleEo]
    /\ nEdits = 0
    /\ okEdits = [i \in 1..MaxSessions |-> 0]
    /\ fc = [s \in Slots |-> IdleFc]
    /\ go = IdleGo
    /\ gc = IdleGc
    /\ ga = IdleGa
    /\ ui = IdleUi
    /\ nCreates = 0

\* get-user-analytics called by any user, or without a valid token.
NextStreak ==
    \E u \in Users \cup {NoUser}, dbOk \in BOOLEAN : GetAnalytics(u, dbOk)

SpecStreak == InitStreak /\ [][NextStreak]_vars

\* Refinement after materialization: the owner's session is materialized
\* by generate-final-course and edit-course-outline is called on it.
NextReview ==
    \/ OutlineRequest({"u1"}, {"Photosynthesis"}, {GoodReply})
    \/ FinalRequest({1}, 1..MaxSessions, {"u1"}, {Some(OutlineB)})
    \/ FinalStep({GoodReply, BadReply})
    \/ EditRequest({1},
          EditBodies(1..MaxSessions, {"u1"}, {"add a module"},
                     {Some(OutlineB)}))
    \/ EditStepOn({GoodReply, BadReply, BareReply})

SpecReview == Init /\ [][NextReview]_vars

\* Concurrent refinement by the session's owner over a store whose queries
\* all succeed.
NextEditRace ==
    \/ OutlineRequest({"u1"}, {"Photosynthesis"}, {GoodReply})
    \/ \E s \in Slots :
          EORequest(s, 1, "add a module", Some(OutlineB), "u1", TRUE)
    \/ \E s \in Slots, reply \in {GoodReply, BadReply, BareReply} :
          EOProvider(s, reply)
    \/ \E s \in Slots :
          \/ EOHistory(s, TRUE)
          \/ EOSaveConversation(s, TRUE)
          \/ EOSaveSession(s, TRUE)

SpecEditRace == Init /\ [][NextEditRace]_vars

\* The course generator page of the signed-in user against the deployed
\* handlers: outline generation, then edit and create requests from the
\* outline review.
NextUi ==
    \/ Tick
    \/ \E reply \in {GoodReply, BadReply, BareReply}, dbOk \in BOOLEAN :
          UIGenerate(reply, dbOk)
    \/ UIOpenReview
    \/ \E msg \in {"add a module", "shorter", "more examples"},
          dbOk \in BOOLEAN :
          UISendMessage(msg, dbOk)
    \/ UIReceiveEdit
    \/ \E dbOk \in BOOLEAN : UICreateCourse(dbOk)

SpecUi == Init /\ [][NextUi]_vars

\* The outline review's response handling, the edit request carrying every
\* field of api.editCourseOutline's parameter type.
NextUiTyped ==
    \/ \E reply \in {GoodReply, BadReply}, dbOk \in BOOLEAN :
          UIGenerate(reply, dbOk)
    \/ UIOpenReview
    \/ \E msg \in {"add a module", "shorter", "more examples"},
          dbOk \in BOOLEAN :
          UISendTyped(msg, dbOk)
    \/ EditStepOn({GoodReply, BadReply, BareReply})
    \/ UIReceiveEdit

SpecUiTyped == Init /\ [][NextUiTyped]_vars

\* Materialization: generate-course-outline creates the session and
\* generate-final-course invocations on it run concurrently and repeatedly.
NextFinal ==
    \/ OutlineRequest({"u1"}, {"Photosynthesis"}, {GoodReply, BadReply})
    \/ FinalRequest(Slots, 1..MaxSessions, Users, {Some(OutlineB)})
    \/ FinalStep({GoodReply, BadReply})

SpecFinal == Init /\ [][NextFinal]_vars

\* ------------------------------------------------------------------ claims
\* The user a row belongs to, whichever identity column carries it.
Owner(r) == IF r.user_id # NoUser THEN r.user_id ELSE r.clerk_user_id

UpQuiet == \A s \in Slots : up[s].pc \in {"idle", "done"}

\* C1: the stored progress_percentage of an existing progress record never
\* decreases, whatever the interleaving of concurrent update-progress calls.
C1_PercentageNeverDecreases ==
    [][\A i \in 1..Len(user_progress) :
          user_progress'[i].progress_percentage
             >= user_progress[i].progress_percentage]_vars

\* C2: an update-progress request whose progress_percentage is below 0 or
\* above 100 is answered 400 at once, before anything is written.
C2_OutOfRangeRejected ==
    \A s \in Slots :
        /\ up[s].pc # "idle"
        /\ up[s].user # NoUser
        /\ up[s].progress_percentage # None
        /\ \/ up[s].progress_percentage[1] < 0
           \/ up[s].progress_percentage[1] > 100
        => up[s].pc = "done" /\ up[s].status = 400

\* C3: no time_spent delta is lost: once the concurrent update-progress
\* calls have returned, a record's time_spent is the sum of the deltas of
\* all calls that wrote it.
C3_NoDeltaLost ==
    UpQuiet =>
        \A i \in 1..Len(user_progress) :
            user_progress[i].user_id # NoUser =>
                user_progress[i].time_spent =
                    credited[<<user_progress[i].user_id,
                               user_progress[i].course_id>>]

\* C4: there is at most one progress record per (user, course) pair.
C4_OneRecordPerPair ==
    \A i, j \in 1..Len(user_progress) :
        i # j =>
            ~ /\ Owner(user_progress[i]) = Owner(user_progress[j])
              /\ user_progress[i].course_id = user_progress[j].course_id

\* C5: when update-progress has answered success and the stored percentage
\* is at least 100, the caller's course is completed and stamped.
C5_CompletedAtHundred ==
    \A s \in Slots :
        /\ up[s].pc = "done" /\ up[s].status = 200
        /\ up[s].progress[1].progress_percentage >= 100
        => \A i \in 1..Len(courses) :
               i = up[s].course_id /\ Owner(courses[i]) = up[s].user
               => /\ courses[i].status = "completed"
                  /\ courses[i].completed_at # None

\* C6: once a course is completed, a further update leaves its status and
\* its completed_at as they are.
C6_CompletionIdempotent ==
    [][\A i \in 1..Len(courses) :
          courses[i].status = "completed"
          => /\ courses'[i].status = "completed"
             /\ courses'[i].completed_at = courses[i].completed_at]_vars

\* C7: the same update submitted twice in sequence: the second answer has
\* the percentage of the first and the first's time_spent plus the delta; a
\* first update creates the record with time_spent equal to the delta (0
\* when none is given); the stored record is the one answered.
C7_RepeatedUpdate ==
    \A s \in Slots :
        up[s].pc = "done" /\ up[s].status = 200 /\ UpQuiet
        => /\ Single(user_progress,
                     ProgressMatch(user_progress, up[s].user, up[s].course_id))
                = up[s].progress
           /\ up[s].existingProgress = None
              => up[s].progress[1].time_spent
                    = (IF up[s].time_spent = None THEN 0
                       ELSE up[s].time_spent[1])
           /\ up[s].repeats # None
              => /\ up[s].progress[1].progress_percentage
                      = up[s].repeats[1].progress_percentage
                 /\ up[s].progress[1].time_spent
                      = up[s].repeats[1].time_spent
                          + (IF up[s].time_spent = None THEN 0
                             ELSE up[s].time_spent[1])

\* A repeated update with a delta of 5 has been answered with time_spent 10.
C7_Witness ==
    \E s \in Slots :
        /\ up[s].pc = "done" /\ up[s].status = 200
        /\ up[s].repeats # None
        /\ up[s].time_spent = Some(5)
        /\ up[s].repeats[1].time_spent = 5
        /\ up[s].progress[1].time_spent = 10

\* The session named by an edit request is missing or not the caller's.
NotOwnSession(c) ==
    \/ c.session_id \notin 1..Len(sessions)
    \/ sessions[c.session_id].clerk_user_id # c.clerk_user_id

\* C8: an edit-course-outline request (with all its fields) for a session
\* that does not exist or is another user's is answered 404 at once: no
\* session content in the answer, no provider call, no conversation row,
\* no session update.
C8_ForeignSessionRejected ==
    \A s \in Slots :
        /\ eo[s].pc # "idle"
        /\ eo[s].session_id # NoSession /\ eo[s].user_message # ""
        /\ eo[s].current_outline # None /\ eo[s].clerk_user_id # NoUser
        /\ NotOwnSession(eo[s])
        => /\ eo[s].pc = "done" /\ eo[s].status = 404
           /\ eo[s].session = None /\ eo[s].updated_outline = None
           /\ eo[s].editPrompt = None /\ eo[s].providerCalls = 0
           /\ ~eo[s].conversationSaved /\ ~eo[s].sessionSaved

\* An edit request for an existing session of another user was answered 404.
C8_Witness ==
    \E s \in Slots :
        /\ eo[s].pc = "done" /\ eo[s].status = 404
        /\ eo[s].session_id \in 1..Len(sessions)
        /\ eo[s].clerk_user_id \in Users
        /\ sessions[eo[s].session_id].clerk_user_id # eo[s].clerk_user_id

\* C9: whenever no edit call is between its append and its answer, a
\* session's conversation holds two rows per edit call answered success.
C9_TwoRowsPerEdit ==
    (\A s \in Slots : eo[s].pc \in {"idle", "done"})
    => \A i \in 1..Len(sessions) :
           Len(ConversationsOf(conversations, i)) = 2 * okEdits[i]

\* C10: an edit call answered success has persisted both the conversation
\* rows and the new current_outline.
C10_SuccessMeansPersisted ==
    \A s \in Slots :
        eo[s].pc = "done" /\ eo[s].status = 200
        => eo[s].conversationSaved /\ eo[s].sessionSaved

\* C11: the outline serialised into the edit prompt is the current_outline
\* of the session row the handler read, whatever outline the client sent;
\* a client outline that differs from the stored one is not an error.
C11_PromptUsesStoredOutline ==
    \A s \in Slots :
        eo[s].editPrompt # None
        => /\ eo[s].editPrompt[1].outline = eo[s].session[1].current_outline
           /\ eo[s].status \notin {400, 404}

\* The keys a parsed object must carry to be an outline.
HasOutlineShape(o) ==
    /\ o.title # None /\ o.description # None /\ o.modules # None
    /\ o.rest = OutlineKeys

\* C12: every session's current_outline has the outline shape, after
\* generate-course-outline and after every edit; a reply that parses as
\* JSON without the outline keys is answered as an error and leaves the
\* session as it was.
C12_OutlineShapeKept ==
    /\ \A i \in 1..Len(sessions) : HasOutlineShape(sessions[i].current_outline)
    /\ \A s \in Slots :
          eo[s].updatedOutline # None
          => HasOutlineShape(eo[s].updatedOutline[1])

\* The course_modules rows of a course, in insertion order.
ModulesOf(cid) == SelectSeq(course_modules, LAMBDA r : r.course_id = cid)

FcQuiet == \A s \in Slots : fc[s].pc \in {"idle", "done"}

\* C13: once generate-final-course has answered success for an approved
\* outline with N modules, its course has total_modules = N and exactly N
\* course_modules rows, with order_index 1..N in the outline's order; and
\* whenever no materialization is in flight every course's total_modules is
\* the number of its course_modules rows.
C13_ModulesMatchTotal ==
    /\ FcQuiet => \A i \in 1..Len(courses) :
                      Len(ModulesOf(i)) = courses[i].total_modules
    /\ \A s \in Slots :
          fc[s].pc = "done" /\ fc[s].status = 200
          => LET mods == fc[s].approved_outline[1].modules[1]
                 rows == ModulesOf(fc[s].course_id)
             IN  /\ courses[fc[s].course_id].total_modules = Len(mods)
                 /\ Len(rows) = Len(mods)
                 /\ \A k \in 1..Len(rows) :
                       /\ rows[k].order_index = k
                       /\ rows[k].title = mods[k].title

\* C14: generate-final-course answers success only when the course row,
\* the course_modules rows, the initial progress row (at 0%) and the
\* session status update were all persisted.
C14_NoPartialSuccess ==
    \A s \in Slots :
        fc[s].pc = "done" /\ fc[s].status = 200
        => /\ fc[s].course_id \in 1..Len(courses)
           /\ fc[s].approved_outline[1].modules # None => fc[s].modulesSaved
           /\ fc[s].progressSaved
           /\ \E i \in 1..Len(user_progress) :
                 /\ user_progress[i].course_id = fc[s].course_id
                 /\ Owner(user_progress[i]) = fc[s].clerk_user_id
                 /\ user_progress[i].progress_percentage = 0
           /\ fc[s].sessionSaved

\* C15: at most one course is ever created from a session.
C15_OneCoursePerSession ==
    \A i, j \in 1..Len(courses) :
        /\ i # j
        /\ courses[i].session_id # NoSession
        => courses[i].session_id # courses[j].session_id

\* C16: a session is created with status outline_review; its status changes
\* only from outline_review to completed and only by the session update of
\* a generate-final-course call on it; and it is completed whenever
\* generate-final-course has answered success for it.
C16_SessionLifecycle ==
    /\ [](\A s \in Slots :
             fc[s].pc = "done" /\ fc[s].status = 200
             => sessions[fc[s].session_id].status = "completed")
    /\ [][\A i \in 1..Len(sessions') :
             IF i > Len(sessions)
             THEN sessions'[i].status = "outline_review"
             ELSE sessions'[i].status # sessions[i].status
                  => /\ sessions[i].status = "outline_review"
                     /\ sessions'[i].status = "completed"
                     /\ \E s \in Slots : /\ fc[s].pc = "session"
                                         /\ fc[s].session_id = i]_vars

\* C17: generate-course-outline creates a session exactly when it answers
\* success: a success appends one session, owned by the caller, with status
\* outline_review and the answered outline as current_outline, and leaves
\* the other sessions alone; any other answer leaves the table as it was.
C17_SessionIffSuccess ==
    [][/\ Len(sessions') # Len(sessions)
          => /\ Len(sessions') = Len(sessions) + 1
             /\ SubSeq(sessions', 1, Len(sessions)) = sessions
             /\ go'.status = 200
             /\ go'.session_id = Len(sessions')
             /\ sessions'[Len(sessions')].clerk_user_id = go'.clerk_user_id
             /\ sessions'[Len(sessions')].status = "outline_review"
             /\ Some(sessions'[Len(sessions')].current_outline) = go'.outline
       /\ go' # go
          => IF go'.status = 200
             THEN Len(sessions') = Len(sessions) + 1
             ELSE /\ sessions' = sessions
                  /\ go'.session_id = NoSession /\ go'.outline = None]_vars

\* A call was answered success and its session is in the table, owned by
\* the caller and holding the answered outline.
C17_Witness ==
    /\ go.status = 200
    /\ go.session_id \in 1..Len(sessions)
    /\ sessions[go.session_id].clerk_user_id = go.clerk_user_id
    /\ Some(sessions[go.session_id].current_outline) = go.outline

\* The strings the validation is to refuse: empty or only whitespace.
IsBlank(str) == str \in {"", " "}

\* C18: a generate-course-outline request whose topic or context is empty
\* or only whitespace is answered 400, without a provider call and without
\* a session.
C18_BlankRejected ==
    go.status # 0 /\ (IsBlank(go.topic) \/ IsBlank(go.context))
    => go.status = 400 /\ ~go.calledProvider /\ go.session_id = NoSession

\* C19: every edit-course-outline invocation that has been received is
\* eventually answered, also when the provider never replies.
C19_EveryCallReturns ==
    \A s \in Slots : (eo[s].pc \notin {"idle", "done"}) ~> (eo[s].pc = "done")

\* The two rows of an answered edit call stand next to each other in the
\* conversation table.
RowsAppended(c) ==
    \E k \in 1..(Len(conversations) - 1) :
        <<conversations[k], conversations[k + 1]>>
           = ConversationRows(c.session_id, c.user_message,
                              c.updated_outline[1])

\* A session's current_outline changes only by the session write of an
\* edit call on it, to that call's parsed outline.
LastWriteWins ==
    \A i \in 1..Len(sessions) :
        sessions'[i].current_outline # sessions[i].current_outline
        => \E s \in Slots :
              /\ eo[s].pc = "save_session" /\ eo[s].session_id = i
              /\ eo'[s].pc = "done"
              /\ sessions'[i].current_outline = eo[s].updatedOutline[1]

\* C20: concurrent edit-course-outline calls on one session are all taken:
\* a call that read the session is never refused afterwards, each call
\* answered success has appended its two conversation rows, and the
\* session's current_outline is that of the last session write.
C20_ConcurrentEditsAccepted ==
    /\ [](\A s \in Slots :
             /\ eo[s].session # None /\ eo[s].pc = "done"
                => eo[s].status \in {200, 500}
             /\ eo[s].pc = "done" /\ eo[s].status = 200
                => RowsAppended(eo[s]))
    /\ [][LastWriteWins]_vars

\* C21: at the moment an edit-course-outline call is answered success, the
\* session's stored current_outline is exactly the updated_outline of the
\* answer.
C21_StoredIsReturned ==
    [][\A s \in Slots :
          /\ eo[s].pc = "save_session"
          /\ eo'[s].pc = "done" /\ eo'[s].status = 200
          => Some(sessions'[eo'[s].session_id].current_outline)
                = eo'[s].updated_outline]_vars

\* The calendar days on which the user has an access record.
DaysAccessed(u) ==
    {user_progress[i].last_accessed \div TicksPerDay :
        i \in {j \in 1..Len(user_progress) : user_progress[j].user_id = u}}

\* The number of consecutive days in D counted back from its latest day.
ConsecutiveDays(D) ==
    IF D = {} THEN 0
    ELSE LET latest == CHOOSE d \in D : \A e \in D : d >= e
         IN  CHOOSE k \in 1..Cardinality(D) :
                /\ \A i \in 0..(k - 1) : (latest - i) \in D
                /\ (latest - k) \notin D

\* C22: for a user whose most recent access is today, learning_streak is
\* the number of consecutive calendar days with at least one access record,
\* counted back from today up to the first gap, whatever the records' dates
\* and however many fall on one day; without records it is 0.
C22_StreakIsConsecutiveDays ==
    /\ ga.status = 200 /\ ga.queried
    /\ DaysAccessed(ga.user) = {} \/ (now \div TicksPerDay) \in DaysAccessed(ga.user)
    => ga.learning_streak = ConsecutiveDays(DaysAccessed(ga.user))

\* C23: once an update-progress call that names a module is answered
\* success, module_progress has the row of (user, course, module) with
\* completed = (progress_percentage >= 100) and time_spent = the call's
\* delta; and module_progress changes only in the module step of a call
\* that names a module.
C23_ModuleRowUpserted ==
    /\ [](\A s \in Slots :
             /\ up[s].pc = "done" /\ up[s].status = 200
             /\ up[s].module_id # NoModule
             => LET key == <<up[s].user, up[s].course_id, up[s].module_id>>
                IN  /\ key \in DOMAIN module_progress
                    /\ module_progress[key].completed
                          = (up[s].progress_percentage[1] >= 100)
                    /\ module_progress[key].time_spent
                          = NumOr(up[s].time_spent, 0))
    /\ [][module_progress' # module_progress
          => \E s \in Slots : /\ up[s].pc = "module"
                              /\ up[s].module_id # NoModule]_vars

\* C24: the write of an update-progress call on an existing progress record
\* leaves the stored completed_modules as they are when the call supplies
\* none and replaces them by the supplied set (the empty one included)
\* otherwise, and leaves the stored notes as they are when the call
\* supplies none or empty ones.
C24_FrameOfUpdate ==
    [][\A s \in Slots :
          /\ up[s].pc = "write" /\ up[s].existingProgress # None
          /\ up'[s].progress # None
          => \A i \in ProgressMatch(user_progress, up[s].user,
                                    up[s].course_id) :
                /\ user_progress'[i].completed_modules
                      = IF up[s].completed_modules = None
                        THEN user_progress[i].completed_modules
                        ELSE up[s].completed_modules[1]
                /\ up[s].notes \in {None, Some("")}
                   => user_progress'[i].notes = user_progress[i].notes]_vars

\* A provider reply with a non-success status, or whose content is neither
\* JSON nor prose around a brace-delimited span that is JSON.
FailedReply(r) == ~r.ok \/ r.form \in {"broken", "prose", "empty"}

\* C25: an edit-course-outline call whose provider reply has a non-success
\* status or does not parse is answered 500 in that very step, having
\* appended no conversation rows and written no session; the step leaves
\* sessions (current_outline, updated_at) and conversations as they were;
\* and no invocation calls the provider more than once.
C25_FailedEditWritesNothing ==
    /\ [](\A s \in Slots :
             /\ eo[s].providerCalls <= 1
             /\ eo[s].aiResponse # None => eo[s].providerCalls = 1
             /\ eo[s].aiResponse # None /\ FailedReply(eo[s].aiResponse[1])
                => /\ eo[s].pc = "done" /\ eo[s].status = 500
                   /\ ~eo[s].conversationSaved /\ ~eo[s].sessionSaved
                   /\ eo[s].updatedOutline = None
                   /\ eo[s].updated_outline = None)
    /\ [][\A s \in Slots :
             /\ eo[s].pc = "provider"
             /\ eo'[s].aiResponse # None /\ FailedReply(eo'[s].aiResponse[1])
             => UNCHANGED <<sessions, conversations>>]_vars

\* An edit call was answered 500 after one provider call whose reply had a
\* success status and a brace-delimited span that is not JSON.
C25_Witness ==
    \E s \in Slots :
        /\ eo[s].pc = "done" /\ eo[s].status = 500
        /\ eo[s].providerCalls = 1
        /\ eo[s].aiResponse = Some(BrokenReply)
        /\ Len(ConversationsOf(conversations, eo[s].session_id)) = 0

\* C26: an edit-course-outline call that found its session completed
\* appends no conversation rows and writes no current_outline.
C26_CompletedIsTerminal ==
    \A s \in Slots :
        eo[s].session # None /\ eo[s].session[1].status = "completed"
        => /\ ~eo[s].conversationSaved /\ ~eo[s].sessionSaved
           /\ eo[s].pc = "done" => eo[s].status # 200

\* The outline of the latest assistant row of a session's conversation.
LatestAssistantOutline(i) ==
    LET rows == SelectSeq(ConversationsOf(conversations, i),
                          LAMBDA r : r.message_type = "assistant")
    IN  rows[Len(rows)].outline

\* C27: whenever no edit-course-outline call is in flight, a session with
\* conversation rows stores the outline of its latest assistant row.
C27_StoredIsLatestAssistant ==
    (\A s \in Slots : eo[s].pc \in {"idle", "done"})
    => \A i \in 1..Len(sessions) :
           ConversationsOf(conversations, i) # <<>>
           => LatestAssistantOutline(i) = Some(sessions[i].current_outline)

\* C28: the course a generate-final-course call has created carries, as
\* approved outline snapshot and as module count, the current_outline of
\* the session row the call read.
C28_CourseFromStoredOutline ==
    \A s \in Slots :
        fc[s].course_id # NoCourse
        => LET stored == fc[s].session[1].current_outline
               course == courses[fc[s].course_id]
           IN  /\ course.approved_outline = Some(stored)
               /\ stored.modules # None
                  => course.total_modules = Len(stored.modules[1])

\* C29: an edit or create request issued by the outline review for an
\* existing session of the signed-in user is never answered 400.
C29_ReviewRequestsComplete ==
    /\ /\ eo[1].pc = "done"
       /\ eo[1].session_id \in 1..Len(sessions)
       /\ sessions[eo[1].session_id].clerk_user_id = clerkUser
       => eo[1].status # 400
    /\ /\ fc[1].pc = "done"
       /\ fc[1].session_id \in 1..Len(sessions)
       /\ sessions[fc[1].session_id].clerk_user_id = clerkUser
       => fc[1].status # 400

====
